---- MODULE Spec2Model ----
(***************************************************************************)
(* Model of the two patch scripts fix-bot-tabs.py and fix-single-tab.py.   *)
(*                                                                         *)
(* A document is a sequence of tokens.  A token is a maximal piece of text *)
(* that the scripts' literals never cut: every literal of the scripts is a *)
(* sequence of tokens, and two literals overlap in a text exactly when     *)
(* their token sequences overlap ('page.evaluate' is a prefix of           *)
(* 'page.evaluateHandle', ' page.click' is a suffix of 'await page.click', *)
(* 'productPage.' does not contain 'page.').  Offsets are Python's 0-based *)
(* offsets, counted in tokens; -1 is str.find's "not found".               *)
(***************************************************************************)
EXTENDS Integers, Sequences, FiniteSets

VARIABLES
    script,             \* which script runs: "bot" or "single"
    file,               \* discord-browser-bot-download.js on disk
    pc,                 \* position in the script
    run,                \* 1 for the first execution, 2 for the re-run
    content,
    func_start,
    func_end,
    before_func,
    func_content,
    after_func,
    counts,             \* count printed for each rule of replacements
    tab_section_start,
    tab_section_end,
    wait_section_start,
    wait_section_end,
    exit_code,          \* -1 while running
    hist                \* what earlier steps saw (for stating the claims)

vars == <<script, file, pc, run, content, func_start, func_end, before_func,
          func_content, after_func, counts, tab_section_start, tab_section_end,
          wait_section_start, wait_section_end, exit_code, hist>>

----------------------------------------------------------------------------
(* Bounds *)

MaxLocLen == 5

MaxBody == 4

MaxRegion == 4

----------------------------------------------------------------------------
(* The literals of the scripts.  A marker is one token, named by its text   *)
(* (the emoji, backquotes and quotes of the console.log literals are left    *)
(* out of the names); the completion log is two tokens, because the script   *)
(* searches for its quoted text alone.                                       *)

StartComment == <<"// Internal submission function (can retry if frame detaches)">>

StartSignature == <<"async function submitToSparxNowInternal(">>

EndApi == <<"// API endpoints for Express server">>

EndExports == <<"module.exports =">>

TabStart == <<"// Get or create the product-specific tab">>

TabEnd == <<"console.log(Navigating productName tab to channel...);">>

WaitStart == <<"// Wait for confirmation message">>

CompleteQuote == <<"Submission complete!">>

WaitEnd == <<"console.log(">> \o CompleteQuote

NoWaitComment == <<"// No confirmation wait - submission complete immediately">>

Methods == <<
    <<"evaluate">>,
    <<"goto">>,
    <<"screenshot">>,
    <<"waitForSelector">>,
    <<"waitForFunction">>,
    <<"keyboard">>,
    <<"type">>,
    <<"click">>,
    <<"evaluate", "Handle">> >>

\* fix-bot-tabs.py: ('await page.m', 'await productPage.m') for the nine
\* methods, then (' page.m', ' productPage.m') for the nine methods.
BotReplacements ==
    [i \in 1..18 |->
        IF i <= 9
        THEN << <<"await", " ", "page.">> \o Methods[i],
                <<"await", " ", "productPage.">> \o Methods[i] >>
        ELSE << <<" ", "page.">> \o Methods[i - 9],
                <<" ", "productPage.">> \o Methods[i - 9] >>]

\* the table with the pair for click pasted from the pair for type
SingleReplacementsPasted ==
    [i \in 1..9 |-> << <<"productPage.">> \o Methods[i],
                       <<"page.">> \o Methods[IF i = 8 THEN 7 ELSE i] >>]

\* fix-single-tab.py: ('productPage.m', 'page.m') for the nine methods.
SingleReplacements ==
    [i \in 1..9 |-> << <<"productPage.">> \o Methods[i], <<"page.">> \o Methods[i] >>]

----------------------------------------------------------------------------
(* Python's string operations, on token sequences *)

\* a slice index as Python normalises it: negative counts from the end
Norm(s, a) ==
    IF a < 0 THEN (IF Len(s) + a < 0 THEN 0 ELSE Len(s) + a)
    ELSE IF a > Len(s) THEN Len(s) ELSE a

\* s[a:b]
Slice(s, a, b) ==
    IF Norm(s, a) >= Norm(s, b) THEN <<>>
    ELSE SubSeq(s, Norm(s, a) + 1, Norm(s, b))

\* s[a:]
From(s, a) == Slice(s, a, Len(s))

\* sub occurs in s at offset i
OccursAt(s, sub, i) ==
    /\ i >= 0
    /\ i + Len(sub) <= Len(s)
    /\ \A k \in 1..Len(sub) : s[i + k] = sub[k]

\* the tokens that are one character long
OneChar == {" ", "("}

\* the token offset where a search with start argument k begins: a negative
\* k counts characters from the end of the text, and lands inside the last
\* token unless that token is a single character
SearchFrom(s, k) ==
    IF k >= 0 THEN k
    ELSE IF Len(s) = 0 THEN 0
    ELSE IF k = -1 /\ s[Len(s)] \in OneChar THEN Len(s) - 1
    ELSE Len(s)

\* s.find(sub, start)
Find(s, sub, start) ==
    LET from == SearchFrom(s, start)
        hits == {i \in from..(Len(s) - Len(sub)) : OccursAt(s, sub, i)}
    IN  IF hits = {} THEN -1
        ELSE CHOOSE i \in hits : \A j \in hits : i <= j

RECURSIVE Count(_, _)
\* s.count(old): non-overlapping occurrences, left to right
Count(s, old) ==
    IF Len(s) < Len(old) THEN 0
    ELSE IF OccursAt(s, old, 0) THEN 1 + Count(From(s, Len(old)), old)
    ELSE Count(Tail(s), old)

RECURSIVE ReplaceFirst(_, _, _)
\* s.replace(old, new, 1): only the first occurrence
ReplaceFirst(s, old, new) ==
    IF Len(s) < Len(old) THEN s
    ELSE IF OccursAt(s, old, 0) THEN new \o From(s, Len(old))
    ELSE <<Head(s)>> \o ReplaceFirst(Tail(s), old, new)

RECURSIVE Replace(_, _, _)
\* s.replace(old, new)
Replace(s, old, new) ==
    IF Len(s) < Len(old) THEN s
    ELSE IF OccursAt(s, old, 0) THEN new \o Replace(From(s, Len(old)), old, new)
    ELSE <<Head(s)>> \o Replace(Tail(s), old, new)

RECURSIVE ApplyRules(_, _, _)
\* the loop "for old, new in replacements", from rule i on
ApplyRules(s, rules, i) ==
    IF i > Len(rules) THEN s
    ELSE ApplyRules(IF Count(s, rules[i][1]) > 0
                    THEN Replace(s, rules[i][1], rules[i][2])
                    ELSE s,
                    rules, i + 1)

RECURSIVE RuleCounts(_, _, _)
\* the count each rule of the loop sees, from rule i on
RuleCounts(s, rules, i) ==
    IF i > Len(rules) THEN <<>>
    ELSE <<Count(s, rules[i][1])>>
         \o RuleCounts(IF Count(s, rules[i][1]) > 0
                       THEN Replace(s, rules[i][1], rules[i][2])
                       ELSE s,
                       rules, i + 1)

----------------------------------------------------------------------------
(* The steps of the scripts *)

\* the two start markers tried in the other order
LocateStartSignatureFirst(c) ==
    IF Find(c, StartSignature, 0) = -1
    THEN Find(c, StartComment, 0)
    ELSE Find(c, StartSignature, 0)

\* func_start: the comment marker, else the function signature
LocateStart(c) ==
    IF Find(c, StartComment, 0) = -1
    THEN Find(c, StartSignature, 0)
    ELSE Find(c, StartComment, 0)

\* the end markers searched from the top of the document
LocateEndFromTop(sc, c, fs) ==
    IF sc = "bot"
    THEN IF Find(c, EndApi, 0) = -1
         THEN Find(c, EndExports, 0)
         ELSE Find(c, EndApi, 0)
    ELSE Find(c, EndExports, 0)

\* func_end, searched from func_start
LocateEnd(sc, c, fs) ==
    IF sc = "bot"
    THEN IF Find(c, EndApi, fs) = -1
         THEN Find(c, EndExports, fs)
         ELSE Find(c, EndApi, fs)
    ELSE Find(c, EndExports, fs)

\* "and" for "or"
BoundaryMissingBoth(fs, fe) == fs = -1 /\ fe = -1

\* if func_start == -1 or func_end == -1
BoundaryMissing(fs, fe) == fs = -1 \/ fe = -1

\* content[func_end + 1:]
AfterFuncOffByOne(c, fe) == From(c, fe + 1)

\* content[func_end:]
AfterFunc(c, fe) == From(c, fe)

\* new_content = before_func + func_content + after_func
Reassemble(b, f, a) == b \o f \o a

Replacements(sc) == IF sc = "bot" THEN BotReplacements ELSE SingleReplacements

\* "or" for "and" in the test of the two markers
RemoveTabSectionEither(f, s, e) ==
    IF s # -1 \/ e # -1
    THEN Slice(f, 0, s) \o From(f, e)
    ELSE f

\* the product tab section: before_tab + after_tab when both markers are found
RemoveTabSection(f, s, e) ==
    IF s # -1 /\ e # -1
    THEN Slice(f, 0, s) \o From(f, e)
    ELSE f

\* the confirmation wait section: before_wait, the comment and the completion
\* log, then after_wait past its completion text
RemoveWaitSection(f, s, e) ==
    IF s # -1 /\ e # -1
    THEN LET after_wait == From(f, e)
         IN  Slice(f, 0, s) \o NoWaitComment \o WaitEnd
             \o From(after_wait, Find(after_wait, CompleteQuote, 0) + Len(CompleteQuote))
    ELSE f

NoHist == [orig |-> <<>>, start1 |-> -1, end1 |-> -1, written1 |-> <<>>,
           region |-> <<>>, pre_tab |-> <<>>, pre_wait |-> <<>>, forward |-> <<>>]

Read ==
    /\ pc = "read"
    /\ content' = file
    /\ pc' = "locate"
    /\ UNCHANGED <<script, file, run, func_start, func_end, before_func,
                   func_content, after_func, counts, tab_section_start,
                   tab_section_end, wait_section_start, wait_section_end,
                   exit_code, hist>>

Locate ==
    /\ pc = "locate"
    /\ func_start' = LocateStart(content)
    /\ func_end' = LocateEnd(script, content, LocateStart(content))
    /\ pc' = "check"
    /\ UNCHANGED <<script, file, run, content, before_func, func_content,
                   after_func, counts, tab_section_start, tab_section_end,
                   wait_section_start, wait_section_end, exit_code, hist>>

BoundaryFail ==
    /\ pc = "check"
    /\ BoundaryMissing(func_start, func_end)
    /\ exit_code' = 1
    /\ pc' = "exit"
    /\ UNCHANGED <<script, file, run, content, func_start, func_end, before_func,
                   func_content, after_func, counts, tab_section_start,
                   tab_section_end, wait_section_start, wait_section_end, hist>>

Extract ==
    /\ pc = "check"
    /\ ~BoundaryMissing(func_start, func_end)
    /\ before_func' = Slice(content, 0, func_start)
    /\ func_content' = Slice(content, func_start, func_end)
    /\ after_func' = AfterFunc(content, func_end)
    /\ hist' = [hist EXCEPT !.region = Slice(content, func_start, func_end)]
    /\ pc' = "replace"
    /\ UNCHANGED <<script, file, run, content, func_start, func_end, counts,
                   tab_section_start, tab_section_end, wait_section_start,
                   wait_section_end, exit_code>>

ReplaceAll ==
    /\ pc = "replace"
    /\ func_content' = ApplyRules(func_content, Replacements(script), 1)
    /\ counts' = RuleCounts(func_content, Replacements(script), 1)
    /\ pc' = IF script = "bot" THEN "write" ELSE "tab"
    /\ UNCHANGED <<script, file, run, content, func_start, func_end, before_func,
                   after_func, tab_section_start, tab_section_end,
                   wait_section_start, wait_section_end, exit_code, hist>>

RemoveTab ==
    /\ pc = "tab"
    /\ tab_section_start' = Find(func_content, TabStart, 0)
    /\ tab_section_end' = Find(func_content, TabEnd, 0)
    /\ func_content' = RemoveTabSection(func_content,
                                        Find(func_content, TabStart, 0),
                                        Find(func_content, TabEnd, 0))
    /\ hist' = [hist EXCEPT !.pre_tab = func_content]
    /\ pc' = "wait"
    /\ UNCHANGED <<script, file, run, content, func_start, func_end, before_func,
                   after_func, counts, wait_section_start, wait_section_end,
                   exit_code>>

RemoveWait ==
    /\ pc = "wait"
    /\ wait_section_start' = Find(func_content, WaitStart, 0)
    /\ wait_section_end' = Find(func_content, WaitEnd, 0)
    /\ func_content' = RemoveWaitSection(func_content,
                                         Find(func_content, WaitStart, 0),
                                         Find(func_content, WaitEnd, 0))
    /\ hist' = [hist EXCEPT !.pre_wait = func_content]
    /\ pc' = "write"
    /\ UNCHANGED <<script, file, run, content, func_start, func_end, before_func,
                   after_func, counts, tab_section_start, tab_section_end,
                   exit_code>>

Write ==
    /\ pc = "write"
    /\ file' = Reassemble(before_func, func_content, after_func)
    /\ exit_code' = 0
    /\ pc' = "done"
    /\ UNCHANGED <<script, run, content, func_start, func_end, before_func,
                   func_content, after_func, counts, tab_section_start,
                   tab_section_end, wait_section_start, wait_section_end, hist>>

\* the script is run again on the file it wrote
Rerun ==
    /\ pc = "done"
    /\ run = 1
    /\ run' = 2
    /\ pc' = "read"
    /\ content' = <<>>
    /\ func_start' = -1
    /\ func_end' = -1
    /\ before_func' = <<>>
    /\ func_content' = <<>>
    /\ after_func' = <<>>
    /\ counts' = <<>>
    /\ tab_section_start' = -1
    /\ tab_section_end' = -1
    /\ wait_section_start' = -1
    /\ wait_section_end' = -1
    /\ exit_code' = -1
    /\ hist' = [NoHist EXCEPT !.orig = hist.orig, !.start1 = func_start,
                              !.end1 = func_end, !.written1 = file]
    /\ UNCHANGED <<script, file>>

----------------------------------------------------------------------------
(* The documents the scripts are run on *)

RECURSIVE Concat(_)
Concat(ps) == IF ps = <<>> THEN <<>> ELSE Head(ps) \o Concat(Tail(ps))

SeqsUpTo(S, n) == UNION {[1..k -> S] : k \in 0..n}

\* a call the script of that name rewrites
Call(sc) == IF sc = "bot" THEN <<" ", "page.", "click">> ELSE <<"productPage.", "click">>

\* documents with the boundary markers anywhere, in any number and order
LocatorDocs(sc) ==
    {Concat(ps) : ps \in SeqsUpTo({StartComment, StartSignature, EndApi,
                                   EndExports, Call(sc)}, MaxLocLen)}

BodyPieces(sc) ==
    IF sc = "bot"
    THEN {<<"await">>, <<" ">>, <<"page.", "evaluate">>, <<"page.", "click">>,
          <<"Handle">>, <<"(">>}
    ELSE {<<"productPage.", "evaluate">>, <<"Handle">>, TabStart, TabEnd,
          WaitStart, WaitEnd}

\* documents with one function, whose body is any text of the script's pieces
BodyDocs(sc) ==
    {StartComment \o Concat(ps) \o (IF sc = "bot" THEN EndApi ELSE EndExports)
        : ps \in SeqsUpTo(BodyPieces(sc), MaxBody)}

Docs(sc) == LocatorDocs(sc) \cup BodyDocs(sc)

Init ==
    /\ script \in {"bot", "single"}
    /\ file \in Docs(script)
    /\ pc = "read"
    /\ run = 1
    /\ content = <<>>
    /\ func_start = -1
    /\ func_end = -1
    /\ before_func = <<>>
    /\ func_content = <<>>
    /\ after_func = <<>>
    /\ counts = <<>>
    /\ tab_section_start = -1
    /\ tab_section_end = -1
    /\ wait_section_start = -1
    /\ wait_section_end = -1
    /\ exit_code = -1
    /\ hist = [NoHist EXCEPT !.orig = file]

Next ==
    \/ Read
    \/ Locate
    \/ BoundaryFail
    \/ Extract
    \/ ReplaceAll
    \/ RemoveTab
    \/ RemoveWait
    \/ Write
    \/ Rerun

Spec == Init /\ [][Next]_vars

----------------------------------------------------------------------------
(* The two rule tables applied one after the other to a region text *)

RegionPieces ==
    {<<"await">>, <<" ">>, <<"page.", "evaluate">>, <<"page.", "click">>,
     <<"Handle">>, <<"productPage.", "click">>}

Regions == {Concat(ps) : ps \in SeqsUpTo(RegionPieces, MaxRegion)}

InitRT ==
    /\ script = "bot"
    /\ file = <<>>
    /\ pc = "rt_bot"
    /\ run = 1
    /\ content = <<>>
    /\ func_start = -1
    /\ func_end = -1
    /\ before_func = <<>>
    /\ func_content \in Regions
    /\ after_func = <<>>
    /\ counts = <<>>
    /\ tab_section_start = -1
    /\ tab_section_end = -1
    /\ wait_section_start = -1
    /\ wait_section_end = -1
    /\ exit_code = -1
    /\ hist = [NoHist EXCEPT !.region = func_content]

\* the loop of fix-bot-tabs.py
ForwardRules ==
    /\ pc = "rt_bot"
    /\ func_content' = ApplyRules(func_content, BotReplacements, 1)
    /\ counts' = RuleCounts(func_content, BotReplacements, 1)
    /\ hist' = [hist EXCEPT !.forward = ApplyRules(func_content, BotReplacements, 1)]
    /\ script' = "single"
    /\ pc' = "rt_single"
    /\ UNCHANGED <<file, run, content, func_start, func_end, before_func,
                   after_func, tab_section_start, tab_section_end,
                   wait_section_start, wait_section_end, exit_code>>

\* the loop of fix-single-tab.py
BackwardRules ==
    /\ pc = "rt_single"
    /\ func_content' = ApplyRules(func_content, SingleReplacements, 1)
    /\ counts' = RuleCounts(func_content, SingleReplacements, 1)
    /\ pc' = "rt_done"
    /\ UNCHANGED <<script, file, run, content, func_start, func_end, before_func,
                   after_func, tab_section_start, tab_section_end,
                   wait_section_start, wait_section_end, exit_code, hist>>

NextRT ==
    \/ ForwardRules
    \/ BackwardRules

SpecRT == InitRT /\ [][NextRT]_vars

----------------------------------------------------------------------------
(* Vocabulary of the claims *)

PastCheck == pc \in {"replace", "tab", "wait", "write", "done"}

Offsets(c) == 0..Len(c)

Present(c, m, k) == \E i \in Offsets(c) : i >= k /\ OccursAt(c, m, i)

FirstAtOrAfter(c, m, k, i) ==
    /\ i >= k
    /\ OccursAt(c, m, i)
    /\ \A j \in Offsets(c) : (k <= j /\ j < i) => ~OccursAt(c, m, j)

NoStartMarker(c) == ~Present(c, StartComment, 0) /\ ~Present(c, StartSignature, 0)

NoEndMarkerFrom(sc, c, k) ==
    /\ ~Present(c, EndExports, k)
    /\ (sc = "bot" => ~Present(c, EndApi, k))

HasPageCall(s) ==
    \E m \in 1..Len(Methods) : Present(s, <<"page.">> \o Methods[m], 0)

NoProductPage(s) == \A i \in 1..Len(s) : s[i] # "productPage."

----------------------------------------------------------------------------
(* C1 Containment: when a script has written, the file is the input's text   *)
(* before func_start, the rewritten region, and the input's text from        *)
(* func_end on; the prefix and the suffix of the file equal the input's.     *)
Containment ==
    pc = "done" =>
        /\ file = Slice(content, 0, func_start) \o func_content \o From(content, func_end)
        /\ Slice(file, 0, func_start) = Slice(content, 0, func_start)
        /\ From(file, Len(file) - (Len(content) - func_end)) = From(content, func_end)

ContainmentWitness ==
    /\ pc = "done"
    /\ func_start > 0
    /\ func_end + 1 < Len(content)
    /\ func_content # hist.region

(* C2 Fail-closed: with no start marker in the document, or no end marker    *)
(* from the start offset on, the run stops at the boundary check with exit   *)
(* status 1 and the file as it was read; no write happens with an offset -1. *)
FailClosed ==
    /\ (pc \notin {"read", "locate"}
        /\ (NoStartMarker(content) \/ NoEndMarkerFrom(script, content, func_start)))
       => /\ pc \in {"check", "exit"}
          /\ file = content
          /\ exit_code = (IF pc = "exit" THEN 1 ELSE -1)
    /\ pc = "exit" => exit_code = 1 /\ file = content
    /\ pc \in {"write", "done"} => func_start # -1 /\ func_end # -1

FailClosedWitness ==
    /\ pc = "exit"
    /\ func_start # -1
    /\ func_end = -1
    /\ Present(content, EndExports, 0)

(* C3 Locator correctness: past the boundary check, func_start is the first  *)
(* occurrence of the comment marker if the document has one, else of the     *)
(* signature; func_end is the first occurrence from func_start on of the     *)
(* first end marker of the script's list that occurs from func_start on.     *)
LocatorCorrect ==
    PastCheck =>
        /\ IF Present(content, StartComment, 0)
           THEN FirstAtOrAfter(content, StartComment, 0, func_start)
           ELSE FirstAtOrAfter(content, StartSignature, 0, func_start)
        /\ IF script = "bot" /\ Present(content, EndApi, func_start)
           THEN FirstAtOrAfter(content, EndApi, func_start, func_end)
           ELSE FirstAtOrAfter(content, EndExports, func_start, func_end)

LocatorWitness ==
    /\ PastCheck
    /\ script = "bot"
    /\ \E i \in Offsets(content) : i < func_start /\ OccursAt(content, StartSignature, i)
    /\ \E i \in Offsets(content) : i < func_start /\ OccursAt(content, EndApi, i)
    /\ \E i \in Offsets(content) :
          func_start < i /\ i < func_end /\ OccursAt(content, EndExports, i)

(* C10 Region invariant: past the boundary check,                            *)
(* 0 <= func_start < func_end <= len(content), and the extracted region is   *)
(* not empty and begins with a start marker.                                 *)
RegionInvariant ==
    PastCheck =>
        /\ 0 <= func_start
        /\ func_start < func_end
        /\ func_end <= Len(content)
        /\ hist.region # <<>>
        /\ hist.region = Slice(content, func_start, func_end)
        /\ OccursAt(hist.region, StartComment, 0) \/ OccursAt(hist.region, StartSignature, 0)

RegionWitness ==
    /\ PastCheck
    /\ func_start > 0
    /\ Len(hist.region) > 1
    /\ Present(content, EndExports, 0) /\ ~Present(content, EndExports, func_start)

(* C5 Idempotence of fix-bot-tabs.py: the re-run on the written file does    *)
(* not stop at the boundary check, locates the same start and end marker     *)
(* occurrences, counts zero matches for each of the 18 rules and writes the  *)
(* same content again.                                                       *)
BotIdempotent ==
    (script = "bot" /\ run = 2) =>
        /\ pc # "exit"
        /\ pc = "done" =>
            /\ file = hist.written1
            /\ func_start = hist.start1
            /\ func_end = hist.end1 + (Len(hist.written1) - Len(hist.orig))
            /\ Len(counts) = 18
            /\ \A i \in 1..Len(counts) : counts[i] = 0

BotIdempotentWitness ==
    /\ script = "bot"
    /\ run = 2
    /\ pc = "done"
    /\ hist.written1 # hist.orig
    /\ HasPageCall(func_content)

(* C4 Idempotence of fix-single-tab.py: the re-run on the written file       *)
(* succeeds and writes the same content again, and no rule matches.          *)
SingleIdempotent ==
    (script = "single" /\ run = 2) =>
        /\ pc # "exit"
        /\ pc = "done" =>
            /\ file = hist.written1
            /\ \A i \in 1..Len(counts) : counts[i] = 0

(* C6 Complete rewrite in fix-bot-tabs.py: after a successful run the        *)
(* rewritten region holds no 'page.' followed by one of the nine methods.    *)
BotRewriteComplete ==
    (script = "bot" /\ pc = "done") => ~HasPageCall(func_content)

(* C7 Span removal in fix-single-tab.py: when both markers of the product    *)
(* tab section are found, at s and e, the region becomes region[:s] +        *)
(* region[e:], the characters from s up to e are what is deleted, and the    *)
(* region does not grow.                                                     *)
TabRemovalExact ==
    (script = "single" /\ pc = "wait"
     /\ tab_section_start # -1 /\ tab_section_end # -1) =>
        /\ func_content = Slice(hist.pre_tab, 0, tab_section_start)
                          \o From(hist.pre_tab, tab_section_end)
        /\ tab_section_start <= tab_section_end
        /\ Len(func_content) = Len(hist.pre_tab) - (tab_section_end - tab_section_start)
        /\ Len(func_content) <= Len(hist.pre_tab)

(* C8 SpanNotFound is recoverable in fix-single-tab.py: an excision with a   *)
(* marker missing leaves the region as it was; the substitutions and the     *)
(* other excision act as they do otherwise; the run never stops with a      *)
(* failure status after the boundary check, and ends written with status 0.  *)
SpanNotFoundRecoverable ==
    script = "single" =>
        /\ (pc \in {"wait", "write", "done"}
            /\ (tab_section_start = -1 \/ tab_section_end = -1))
           => /\ hist.pre_wait = (IF pc = "wait" THEN <<>> ELSE hist.pre_tab)
              /\ pc = "wait" => func_content = hist.pre_tab
              /\ hist.pre_tab = ApplyRules(hist.region, SingleReplacements, 1)
        /\ (pc \in {"write", "done"}
            /\ (wait_section_start = -1 \/ wait_section_end = -1))
           => /\ func_content = hist.pre_wait
              /\ (tab_section_start # -1 /\ tab_section_start < tab_section_end)
                 => func_content = Slice(hist.pre_tab, 0, tab_section_start)
                                   \o From(hist.pre_tab, tab_section_end)
        /\ (pc \in {"write", "done"}
            /\ (tab_section_start = -1 \/ tab_section_end = -1)
            /\ wait_section_start # -1 /\ wait_section_start < wait_section_end)
           => func_content = Slice(hist.pre_tab, 0, wait_section_start)
                             \o NoWaitComment
                             \o From(hist.pre_tab, wait_section_end)
        /\ pc \in {"tab", "wait", "write"} => exit_code = -1
        /\ pc = "done" =>
            /\ exit_code = 0
            /\ file = before_func \o func_content \o after_func

SpanNotFoundWitness ==
    /\ script = "single"
    /\ pc = "done"
    /\ tab_section_start # -1
    /\ tab_section_end = -1
    /\ wait_section_start # -1
    /\ wait_section_end # -1
    /\ func_content # hist.pre_wait

(* C9 Round trip of the two rule tables: a region text with no               *)
(* 'productPage.' in it is the same again after the 18 rules of              *)
(* fix-bot-tabs.py and then the 9 rules of fix-single-tab.py.                *)
RoundTrip ==
    (pc = "rt_done" /\ NoProductPage(hist.region)) => func_content = hist.region

RoundTripWitness ==
    /\ pc = "rt_done"
    /\ NoProductPage(hist.region)
    /\ hist.forward # hist.region
    /\ \E i \in 1..Len(counts) : counts[i] > 1

====
